---- MODULE Spec2Model ----
(***************************************************************************)
(* Model of the engagement engine of the Agentic Honey-Pot API             *)
(* (src/app.py): classifier, extractor, response selector, conversation    *)
(* store and the callback trigger of the /api/v1/process handler.          *)
(*                                                                         *)
(* A message text is a sequence of whitespace-separated tokens.  The       *)
(* regular expressions of the source are modelled token by token: for the  *)
(* tokens of the vocabulary below, each table lists the tokens in which    *)
(* the corresponding expression finds a match.  Scores are in tenths.      *)
(***************************************************************************)
EXTENDS Integers, Sequences, FiniteSets, TLC

VARIABLES conversations, pending, calls, attempts, successes, rate_limits, now, last

vars == <<conversations, pending, calls, attempts, successes, rate_limits, now, last>>

(***************************************************************************)
(* Bounds of the exploration.                                              *)
(***************************************************************************)
MaxTurns == 4

\* the longest text, in tokens, given to the classifier and the extractor
\* on their own
MaxTokens == 2

\* messages handled in all, in the runs with two conversations
MaxTotal == 3

\* requests counted beyond the rate limit
MaxOver == 2

(***************************************************************************)
(* Inputs.                                                                 *)
(***************************************************************************)
TextPlain == <<"Hi,", "how", "are", "you?">>

TextScenario == <<"URGENT:", "send", "to", "pay@ybl", "now", "http://bad.example">>

TextFull == <<"urgent", "transfer", "to", "pay@ybl", "account", "123456789012">>

TextHandleOnly == <<"urgent", "payment", "pay@ybl", "pay@ybl">>

TextLink == <<"see", "http://bad.example", "http://bad.example">>

TextPhone == <<"call", "9876543210">>

TextAllThree == <<"URGENT:", "payment", "www.bank.example">>

TextAccountOnly == <<"verify", "bank", "account", "123456789012">>

TextFullLink == <<"urgent", "pay@ybl", "123456789012", "http://bad.example">>

AllTexts ==
    {TextPlain, TextScenario, TextFull, TextHandleOnly, TextLink, TextPhone,
     TextAllThree, TextAccountOnly}

\* the texts of the main specification: a scam message with a handle and an
\* account, a non-scam message with a URL, a non-scam message with a number
Texts == {TextFull, TextLink, TextPhone}

\* the tokens of the texts given to the classifier and the extractor on
\* their own
Vocabulary ==
    {"hi", "urgent", "account", "blocked", "http://bad.example", "www.bank.example",
     "payment", "pay@ybl", "9876543210", "123456789012"}

TokenTexts == UNION {[1..n -> Vocabulary] : n \in 1..MaxTokens}

\* scam-flagged texts: handle and URL, handle and account, all of them
ScamTexts == {TextScenario, TextFull, TextFullLink}

CIDs == {"default", "other"}

\* the identifier used by the specifications of a single conversation
OneCID == {"default"}

(***************************************************************************)
(* Configuration.                                                          *)
(***************************************************************************)
API_KEYS == {"hackathon-submission-2026", "hackathon-judge-key"}

RateLimit == 100

(***************************************************************************)
(* Token tables: where each regular expression of the source matches.      *)
(***************************************************************************)
Range(s) == {s[i] : i \in 1..Len(s)}

\* r"urgent|verify|account blocked", re.I : single-token alternatives
UrgencyTokens == {"URGENT:", "urgent", "verify"}

\* "account blocked" spans two adjacent tokens
HasAccountBlocked(text) ==
    \E i \in 1..(Len(text) - 1) : text[i] = "account" /\ text[i + 1] = "blocked"

\* r"http[s]?://|www\."
LinkTokens == {"http://bad.example", "https://pay.example", "www.bank.example"}

\* r"upi|bank|transfer|payment"
FinancialTokens == {"upi", "bank", "transfer", "payment", "www.bank.example"}

\* r'([\w\.-]+@(ybl|axl|okaxis|oksbi|paytm))' : group 0 of each match
UpiTokens == {"pay@ybl", "scam@paytm"}

\* r'\b\d{9,18}\b'
BankTokens == {"123456789012", "9876543210"}

\* r'\b[6-9]\d{9}\b'
PhoneTokens == {"9876543210"}

\* r'https?://[^\s]+'
UrlTokens == {"http://bad.example", "https://pay.example"}

\* k in text.lower() for k in ["urgent", "verify", "account", "payment", "click"]
KeywordOf(tok) ==
    CASE tok \in {"URGENT:", "urgent"} -> {"urgent"}
      [] tok = "verify" -> {"verify"}
      [] tok = "account" -> {"account"}
      [] tok = "payment" -> {"payment"}
      [] tok \in {"click", "Click"} -> {"click"}
      [] OTHER -> {}

(***************************************************************************)
(* detect_scam                                                             *)
(***************************************************************************)
UrgencyWeight == 4

LinkWeight == 5

FinancialWeight == 4

ScamThreshold == 7

ScoreCap == 10

Min(a, b) == IF a <= b THEN a ELSE b

MatchesUrgency(text) == (Range(text) \cap UrgencyTokens # {}) \/ HasAccountBlocked(text)

MatchesLink(text) == Range(text) \cap LinkTokens # {}

MatchesFinancial(text) == Range(text) \cap FinancialTokens # {}

Score(text) ==
      (IF MatchesUrgency(text) THEN UrgencyWeight ELSE 0)
    + (IF MatchesLink(text) THEN LinkWeight ELSE 0)
    + (IF MatchesFinancial(text) THEN FinancialWeight ELSE 0)

\* variant: the score is returned without the cap
detect_scam_NoCap(text) ==
    [is_scam |-> Score(text) >= ScamThreshold,
     confidence |-> Score(text)]

\* variant: the link weight alone reaches the threshold
detect_scam_LowThreshold(text) ==
    [is_scam |-> Score(text) >= LinkWeight,
     confidence |-> Min(Score(text), ScoreCap)]

detect_scam(text) ==
    [is_scam |-> Score(text) >= ScamThreshold,
     confidence |-> Min(Score(text), ScoreCap)]

(***************************************************************************)
(* extract_intelligence                                                    *)
(***************************************************************************)
\* re.findall over the text: the matching tokens, in order, with repeats
FindAll(text, table) == SelectSeq(text, LAMBDA tok : tok \in table)

\* [{"url": u, "is_suspicious": True} for u in re.findall(...)]
UrlRecords(text) ==
    [i \in 1..Len(FindAll(text, UrlTokens)) |->
        [url |-> FindAll(text, UrlTokens)[i], is_suspicious |-> TRUE]]

extract_intelligence(text) ==
    [upi_ids |-> Range(FindAll(text, UpiTokens)),
     bank_accounts |-> Range(FindAll(text, BankTokens)),
     phone_numbers |-> Range(FindAll(text, PhoneTokens)),
     urls |-> UrlRecords(text),
     keywords |-> UNION {KeywordOf(tok) : tok \in Range(text)}]

(***************************************************************************)
(* get_agent_response                                                      *)
(***************************************************************************)
NeutralReply == "Thanks for the message."

responses ==
    {"Can you send the details again?",
     "That didn't work. Do you have another account?",
     "Please confirm the payment method."}

EndTurn == 4

\* variant: the account numbers are not looked at
should_end_HandleOnly(extracted, turn) ==
    /\ turn >= EndTurn
    /\ extracted.upi_ids # {}

should_end(extracted, turn) ==
    /\ turn >= EndTurn
    /\ extracted.upi_ids # {}
    /\ extracted.bank_accounts # {}

\* the set of results the call can return (random.choice over the pool)
get_agent_response(is_scam, extracted, turn) ==
    IF ~is_scam
    THEN {[response_text |-> NeutralReply, agent_engaged |-> FALSE, next_action |-> "end"]}
    ELSE {[response_text |-> r, agent_engaged |-> TRUE,
           next_action |-> IF should_end(extracted, turn) THEN "end" ELSE "continue"]
          : r \in responses}

(***************************************************************************)
(* manage_conversation                                                     *)
(***************************************************************************)
\* extracted.items(), in insertion order
Categories == <<"upi_ids", "bank_accounts", "phone_numbers", "urls", "keywords">>

\* the elements of the list extracted[k]
Items(extracted, k) == IF k = "urls" THEN Range(extracted.urls) ELSE extracted[k]

\* set(...) raises TypeError when the list holds a dict: only the url records are dicts
HasUnhashable(k, items) == k = "urls" /\ items # {}

NewConversation ==
    [messages |-> <<>>,
     scam_detected |-> FALSE,
     agent_engaged |-> FALSE,
     extracted_intelligence |-> <<>>,
     callback_sent |-> FALSE]

\* variant: the category is overwritten by this message's values
MergeCategory_Overwrite(old, items) == items

\* list(set(old + v)): old and v together, without repeats
MergeCategory(old, items) == old \cup items

\* lines 140-145 from the i-th category on; stops at the category whose set() raises
RECURSIVE MergeFrom(_, _, _)
MergeFrom(acc, extracted, i) ==
    IF i > Len(Categories)
    THEN [intel |-> acc, raised |-> FALSE]
    ELSE LET k == Categories[i]
             acc0 == IF k \in DOMAIN acc THEN acc ELSE acc @@ (k :> {})
             combined == MergeCategory(acc0[k], Items(extracted, k))
         IN  IF HasUnhashable(k, combined)
             THEN [intel |-> acc0, raised |-> TRUE]
             ELSE MergeFrom([acc0 EXCEPT ![k] = combined], extracted, i + 1)

\* variant: the turn is appended after the merge, so a raising merge drops it
manage_conversation_AppendLast(convs, cid, user_msg, agent_msg, is_scam, extracted) ==
    LET convs0 == IF cid \in DOMAIN convs THEN convs ELSE convs @@ (cid :> NewConversation)
        conv0 == convs0[cid]
        merged == MergeFrom(conv0.extracted_intelligence, extracted, 1)
        conv1 == [conv0 EXCEPT
                    !.messages = IF merged.raised THEN @
                                 ELSE Append(@, [user |-> user_msg, agent |-> agent_msg]),
                    !.scam_detected = @ \/ is_scam,
                    !.agent_engaged = @ \/ is_scam,
                    !.extracted_intelligence = merged.intel]
    IN  [conversations |-> [convs0 EXCEPT ![cid] = conv1],
         raised |-> merged.raised,
         metrics |-> [turn_count |-> Len(conv1.messages),
                      scam_detected |-> conv1.scam_detected]]

\* variant: agent_engaged follows the classification of the current message
manage_conversation_EngagedFollows(convs, cid, user_msg, agent_msg, is_scam, extracted) ==
    LET convs0 == IF cid \in DOMAIN convs THEN convs ELSE convs @@ (cid :> NewConversation)
        conv0 == convs0[cid]
        merged == MergeFrom(conv0.extracted_intelligence, extracted, 1)
        conv1 == [conv0 EXCEPT
                    !.messages = Append(@, [user |-> user_msg, agent |-> agent_msg]),
                    !.scam_detected = @ \/ is_scam,
                    !.agent_engaged = is_scam,
                    !.extracted_intelligence = merged.intel]
    IN  [conversations |-> [convs0 EXCEPT ![cid] = conv1],
         raised |-> merged.raised,
         metrics |-> [turn_count |-> Len(conv1.messages),
                      scam_detected |-> conv1.scam_detected]]

\* variant: every conversation shares one extracted_intelligence dictionary
manage_conversation_SharedIntel(convs, cid, user_msg, agent_msg, is_scam, extracted) ==
    LET convs0 == IF cid \in DOMAIN convs THEN convs ELSE convs @@ (cid :> NewConversation)
        conv0 == convs0[cid]
        merged == MergeFrom(conv0.extracted_intelligence, extracted, 1)
        conv1 == [conv0 EXCEPT
                    !.messages = Append(@, [user |-> user_msg, agent |-> agent_msg]),
                    !.scam_detected = @ \/ is_scam,
                    !.agent_engaged = @ \/ is_scam,
                    !.extracted_intelligence = merged.intel]
    IN  [conversations |-> [c \in DOMAIN convs0 |->
                              IF c = cid THEN conv1
                              ELSE [convs0[c] EXCEPT !.extracted_intelligence = merged.intel]],
         raised |-> merged.raised,
         metrics |-> [turn_count |-> Len(conv1.messages),
                      scam_detected |-> conv1.scam_detected]]

\* variant: the returned scam flag is the classification of the current message
manage_conversation_MetricsCurrent(convs, cid, user_msg, agent_msg, is_scam, extracted) ==
    LET convs0 == IF cid \in DOMAIN convs THEN convs ELSE convs @@ (cid :> NewConversation)
        conv0 == convs0[cid]
        merged == MergeFrom(conv0.extracted_intelligence, extracted, 1)
        conv1 == [conv0 EXCEPT
                    !.messages = Append(@, [user |-> user_msg, agent |-> agent_msg]),
                    !.scam_detected = @ \/ is_scam,
                    !.agent_engaged = @ \/ is_scam,
                    !.extracted_intelligence = merged.intel]
    IN  [conversations |-> [convs0 EXCEPT ![cid] = conv1],
         raised |-> merged.raised,
         metrics |-> [turn_count |-> Len(conv1.messages),
                      scam_detected |-> is_scam]]

\* the store after the call, whether it raised, and the returned metrics
manage_conversation(convs, cid, user_msg, agent_msg, is_scam, extracted) ==
    LET convs0 == IF cid \in DOMAIN convs THEN convs ELSE convs @@ (cid :> NewConversation)
        conv0 == convs0[cid]
        merged == MergeFrom(conv0.extracted_intelligence, extracted, 1)
        conv1 == [conv0 EXCEPT
                    !.messages = Append(@, [user |-> user_msg, agent |-> agent_msg]),
                    !.scam_detected = @ \/ is_scam,
                    !.agent_engaged = @ \/ is_scam,
                    !.extracted_intelligence = merged.intel]
    IN  [conversations |-> [convs0 EXCEPT ![cid] = conv1],
         raised |-> merged.raised,
         metrics |-> [turn_count |-> Len(conv1.messages),
                      scam_detected |-> conv1.scam_detected]]

(***************************************************************************)
(* send_callback                                                           *)
(***************************************************************************)
Get(d, k) == IF k \in DOMAIN d THEN d[k] ELSE {}

Payload(conversation_id, extracted, total_messages) ==
    [sessionId |-> conversation_id,
     scamDetected |-> TRUE,
     totalMessagesExchanged |-> total_messages,
     extractedIntelligence |->
        [bankAccounts |-> Get(extracted, "bank_accounts"),
         upiIds |-> Get(extracted, "upi_ids"),
         phishingLinks |-> {u.url : u \in Get(extracted, "urls")},
         phoneNumbers |-> Get(extracted, "phone_numbers"),
         suspiciousKeywords |-> Get(extracted, "keywords")],
     agentNotes |-> "Scammer used urgency and payment redirection tactics"]

\* what the awaited post can produce: 0 stands for an exception or the timeout
Statuses == {0, 200, 201, 204, 500}

\* variant: every answer of the remote counts as success
CallbackOk_AnyResponse(status) == status # 0

\* variant: only a 5xx answer counts as failure
CallbackOk_Not5xx(status) == status \notin 500..599

CallbackOk(status) == status \in {200, 201}

\* variant: the trigger does not look at callback_sent
ShouldFire_NoSentCheck(conv, next_action) ==
    conv.scam_detected /\ next_action = "end"

\* variant: the trigger does not look at scam_detected
ShouldFire_NoScamCheck(conv, next_action) ==
    next_action = "end" /\ ~conv.callback_sent

\* the condition of the callback trigger
ShouldFire(conv, next_action) ==
    conv.scam_detected /\ next_action = "end" /\ ~conv.callback_sent

(***************************************************************************)
(* State.                                                                  *)
(*   conversations : the conversations dict (cid -> conversation)          *)
(*   pending       : the handlers suspended at the awaited post            *)
(*   calls         : per cid, the requests that entered the engine         *)
(*   attempts      : per cid, the outbound reports started                 *)
(*   successes     : per cid, the reports for which send_callback          *)
(*                   returned True                                         *)
(*   rate_limits   : the rate_limits dict, keyed by <<api key, minute>>    *)
(*   now           : the clock minute (the specifications below stay       *)
(*                   within one minute)                                    *)
(*   last          : the most recent handler step and what it returned     *)
(***************************************************************************)
\* a request that carries no X-API-Key header
NoHeader == "(no header)"

Keys == {"hackathon-submission-2026", "wrong-key", NoHeader}

NoCall ==
    [kind |-> "none", status |-> 0, key |-> "", cid |-> "", text |-> <<>>,
     is_scam |-> FALSE, confidence |-> 0, extracted |-> extract_intelligence(<<>>),
     turn |-> 0, response_text |-> "", agent_engaged |-> FALSE, next_action |-> "",
     merged |-> FALSE, metrics |-> [turn_count |-> 0, scam_detected |-> FALSE],
     attempted |-> FALSE, payload |-> Payload("", <<>>, 0), callback_status |-> 0]

Init ==
    /\ conversations = <<>>
    /\ pending = {}
    /\ calls = [c \in CIDs |-> 0]
    /\ attempts = [c \in CIDs |-> 0]
    /\ successes = [c \in CIDs |-> 0]
    /\ rate_limits = <<>>
    /\ now = 0
    /\ last = NoCall

TurnsOf(convs, cid) == IF cid \in DOMAIN convs THEN Len(convs[cid].messages) ELSE 0

\* variant: the turn is the count before this message, without the + 1
TurnNumber_ZeroBased(convs, cid) == TurnsOf(convs, cid)

\* len(conversations.get(cid, {}).get("messages", [])) + 1
TurnNumber(convs, cid) == TurnsOf(convs, cid) + 1

\* rate_limits[key] = rate_limits.get(key, 0) + 1
Count(limits, bucket) ==
    IF bucket \in DOMAIN limits
    THEN [limits EXCEPT ![bucket] = @ + 1]
    ELSE limits @@ (bucket :> 1)

\* variant: the request that reaches the limit is rejected as well
OverLimit_AtLimit(count) == count >= RateLimit

\* if rate_limits[key] > 100
OverLimit(count) == count > RateLimit

\* Header(...) is a required parameter: without the header the request fails
\* validation with 422 before verify_api_key runs
Reject422(key, cid, text) ==
    /\ last' = [NoCall EXCEPT !.kind = "process", !.status = 422, !.key = key,
                              !.cid = cid, !.text = text]
    /\ UNCHANGED <<conversations, pending, calls, attempts, successes, rate_limits>>

\* verify_api_key raises 403 before the handler body runs
Reject403(key, cid, text) ==
    /\ last' = [NoCall EXCEPT !.kind = "process", !.status = 403, !.key = key,
                              !.cid = cid, !.text = text]
    /\ UNCHANGED <<conversations, pending, calls, attempts, successes, rate_limits>>

\* check_rate_limit raised 429 after counting the request
Reject429(key, cid, text) ==
    /\ last' = [NoCall EXCEPT !.kind = "process", !.status = 429, !.key = key,
                              !.cid = cid, !.text = text]
    /\ UNCHANGED <<conversations, pending, calls, attempts, successes>>

\* lines 181-208 up to the awaited post, run without suspension
Engine(key, cid, text) ==
    LET d == detect_scam(text)
        extracted == extract_intelligence(text)
        turn == TurnNumber(conversations, cid)
    IN  \E reply \in get_agent_response(d.is_scam, extracted, turn) :
          LET m == manage_conversation(conversations, cid, text, reply.response_text,
                                       d.is_scam, extracted)
              conv == m.conversations[cid]
              call == [NoCall EXCEPT
                         !.kind = "process", !.key = key, !.cid = cid, !.text = text,
                         !.is_scam = d.is_scam, !.confidence = d.confidence,
                         !.extracted = extracted, !.turn = turn,
                         !.response_text = reply.response_text,
                         !.agent_engaged = reply.agent_engaged,
                         !.next_action = reply.next_action]
          IN  /\ conversations' = m.conversations
              /\ calls' = [calls EXCEPT ![cid] = @ + 1]
              /\ IF m.raised
                 THEN \* the TypeError leaves the handler: 500
                      /\ last' = [call EXCEPT !.status = 500]
                      /\ UNCHANGED <<pending, attempts, successes>>
                 ELSE IF ShouldFire(conv, reply.next_action)
                 THEN \* send_callback builds the payload and suspends at the post
                      LET sent == [call EXCEPT
                                     !.merged = TRUE, !.metrics = m.metrics,
                                     !.attempted = TRUE,
                                     !.payload = Payload(cid, conv.extracted_intelligence,
                                                         Len(conv.messages))]
                      IN  /\ pending' = pending \cup {sent}
                          /\ attempts' = [attempts EXCEPT ![cid] = @ + 1]
                          /\ last' = sent
                          /\ UNCHANGED successes
                 ELSE /\ last' = [call EXCEPT !.merged = TRUE, !.metrics = m.metrics,
                                              !.status = 200]
                      /\ UNCHANGED <<pending, attempts, successes>>

\* variant: while the report of another conversation awaits its answer the
\* request is turned away with 503 instead of being handled
Process_Busy(key, cid, text) ==
    /\ TurnsOf(conversations, cid) < MaxTurns
    /\ UNCHANGED now
    /\ IF key = NoHeader
       THEN Reject422(key, cid, text)
       ELSE IF key \notin API_KEYS
       THEN Reject403(key, cid, text)
       ELSE /\ rate_limits' = Count(rate_limits, <<key, now>>)
            /\ IF OverLimit(rate_limits'[<<key, now>>])
               THEN Reject429(key, cid, text)
               ELSE IF \E call \in pending : call.cid # cid
               THEN /\ last' = [NoCall EXCEPT !.kind = "process", !.status = 503,
                                              !.key = key, !.cid = cid, !.text = text]
                    /\ UNCHANGED <<conversations, pending, calls, attempts, successes>>
               ELSE Engine(key, cid, text)

\* POST /api/v1/process, from the dependency to the first suspension or the return
Process(key, cid, text) ==
    /\ TurnsOf(conversations, cid) < MaxTurns
    /\ UNCHANGED now
    /\ IF key = NoHeader
       THEN Reject422(key, cid, text)
       ELSE IF key \notin API_KEYS
       THEN Reject403(key, cid, text)
       ELSE /\ rate_limits' = Count(rate_limits, <<key, now>>)
            /\ IF OverLimit(rate_limits'[<<key, now>>])
               THEN Reject429(key, cid, text)
               ELSE Engine(key, cid, text)

\* the awaited post completes: lines 171-174, then 208 and the return
CallbackReturn(call, status) ==
    /\ call \in pending
    /\ pending' = pending \ {call}
    /\ conversations' =
         IF CallbackOk(status)
         THEN [conversations EXCEPT ![call.cid].callback_sent = TRUE]
         ELSE conversations
    /\ successes' =
         IF CallbackOk(status)
         THEN [successes EXCEPT ![call.cid] = @ + 1]
         ELSE successes
    /\ last' = [call EXCEPT !.kind = "resume", !.status = 200, !.callback_status = status]
    /\ UNCHANGED <<calls, attempts, rate_limits, now>>

Requests(K, C, T) == \E key \in K, cid \in C, text \in T : Process(key, cid, text)

Returns == \E call \in pending, status \in Statuses : CallbackReturn(call, status)

Next ==
    \/ Requests(Keys, OneCID, Texts)
    \/ Returns

Spec == Init /\ [][Next]_vars

(***************************************************************************)
(* The messages of a conversation handled one after another: a request     *)
(* starts only when no handler is suspended.                               *)
(***************************************************************************)
NextSeq ==
    \/ (pending = {} /\ Requests(Keys, OneCID, Texts))
    \/ Returns

SpecSeq == Init /\ [][NextSeq]_vars

(***************************************************************************)
(* Successive scam-flagged messages, handled one after another.            *)
(***************************************************************************)
NextScam ==
    \/ (pending = {} /\ Requests(Keys, OneCID, ScamTexts))
    \/ Returns

SpecScam == Init /\ [][NextScam]_vars

\* the callers that pass verify_api_key
ValidKeys == Keys \cap API_KEYS

(***************************************************************************)
(* Two conversation identifiers, requests overlapping freely.              *)
(***************************************************************************)
RECURSIVE TotalTurns(_, _)
TotalTurns(convs, cs) ==
    IF cs = {} THEN 0
    ELSE LET c == CHOOSE x \in cs : TRUE
         IN  TurnsOf(convs, c) + TotalTurns(convs, cs \ {c})


NextTwo ==
    \/ (TotalTurns(conversations, CIDs) < MaxTotal /\ Requests(ValidKeys, CIDs, Texts))
    \/ Returns

SpecTwo == Init /\ [][NextTwo]_vars

(***************************************************************************)
(* Two conversation identifiers and messages without links: every message  *)
(* gets through the store update, so requests overlap only with reports.   *)
(***************************************************************************)
OverlapTexts == {TextFull, TextPhone}

NextOverlap ==
    \/ (TotalTurns(conversations, CIDs) < MaxTotal
          /\ Requests(ValidKeys, CIDs, OverlapTexts))
    \/ Returns

SpecOverlap == Init /\ [][NextOverlap]_vars

(***************************************************************************)
(* One caller within one clock minute.  Besides the conversation that is   *)
(* followed, the caller sends requests for other identifiers: they leave   *)
(* the followed conversation alone and only advance the caller's counter.  *)
(***************************************************************************)
\* rate_limits.get(key, 0)
Counted(limits, bucket) == IF bucket \in DOMAIN limits THEN limits[bucket] ELSE 0

\* POST /api/v1/process for a conversation identifier that is not followed
ProcessElsewhere(key) ==
    /\ key \in API_KEYS
    /\ rate_limits' = Count(rate_limits, <<key, now>>)
    /\ last' = [NoCall EXCEPT !.kind = "elsewhere", !.key = key,
                              !.status = IF OverLimit(rate_limits'[<<key, now>>])
                                         THEN 429 ELSE 200]
    /\ UNCHANGED <<conversations, pending, calls, attempts, successes, now>>

NextRate ==
    \/ \E key \in ValidKeys :
          /\ Counted(rate_limits, <<key, now>>) < RateLimit + MaxOver
          /\ TotalTurns(conversations, OneCID) < MaxTotal
          /\ Requests({key}, OneCID, OverlapTexts)
    \/ \E key \in ValidKeys :
          /\ Counted(rate_limits, <<key, now>>) < RateLimit + MaxOver
          /\ ProcessElsewhere(key)
    \/ Returns

SpecRate == Init /\ [][NextRate]_vars

(***************************************************************************)
(* The response selector on its own: the arguments are drawn in the        *)
(* initial state and one step applies get_agent_response to them.          *)
(***************************************************************************)
InitSelect ==
    /\ conversations = <<>>
    /\ pending = {}
    /\ calls = [c \in CIDs |-> 0]
    /\ attempts = [c \in CIDs |-> 0]
    /\ successes = [c \in CIDs |-> 0]
    /\ rate_limits = <<>>
    /\ now = 0
    /\ \E is_scam \in BOOLEAN, text \in AllTexts, turn \in 1..(MaxTurns + 1) :
         last = [NoCall EXCEPT !.kind = "args", !.is_scam = is_scam,
                               !.extracted = extract_intelligence(text), !.turn = turn]

Select ==
    /\ last.kind = "args"
    /\ \E reply \in get_agent_response(last.is_scam, last.extracted, last.turn) :
         last' = [last EXCEPT !.kind = "selected",
                              !.response_text = reply.response_text,
                              !.agent_engaged = reply.agent_engaged,
                              !.next_action = reply.next_action]
    /\ UNCHANGED <<conversations, pending, calls, attempts, successes, rate_limits, now>>

SpecSelect == InitSelect /\ [][Select]_vars

(***************************************************************************)
(* The classifier and the extractor on their own: the text is drawn in     *)
(* the initial state and one step applies both functions to it.            *)
(***************************************************************************)
InitText ==
    /\ conversations = <<>>
    /\ pending = {}
    /\ calls = [c \in CIDs |-> 0]
    /\ attempts = [c \in CIDs |-> 0]
    /\ successes = [c \in CIDs |-> 0]
    /\ rate_limits = <<>>
    /\ now = 0
    /\ \E text \in TokenTexts : last = [NoCall EXCEPT !.kind = "text", !.text = text]

Analyse ==
    /\ last.kind = "text"
    /\ last' = [last EXCEPT !.kind = "analysed",
                            !.is_scam = detect_scam(last.text).is_scam,
                            !.confidence = detect_scam(last.text).confidence,
                            !.extracted = extract_intelligence(last.text)]
    /\ UNCHANGED <<conversations, pending, calls, attempts, successes, rate_limits, now>>

SpecText == InitText /\ [][Analyse]_vars

(***************************************************************************)
(* Properties.                                                             *)
(***************************************************************************)
Conv(c) == conversations[c]

Known == DOMAIN conversations

\* the handler step recorded in last entered the engine
Handled == last.kind \in {"process", "resume"} /\ last.status \notin {403, 422, 429}

\* C1: for every conversation, under every interleaving of process_message
\* calls, at most one outbound report returns success.
FireOnceConcurrent == \A c \in CIDs : successes[c] <= 1

SentImpliesScam == \A c \in Known : Conv(c).callback_sent => Conv(c).scam_detected

SentStep ==
    /\ \A c \in Known :
         /\ c \in DOMAIN conversations'
         /\ Conv(c).callback_sent => conversations'[c].callback_sent
         /\ (~Conv(c).callback_sent /\ conversations'[c].callback_sent) =>
               /\ last'.kind = "resume" /\ last'.cid = c
               /\ last'.next_action = "end"
               /\ last'.callback_status \in 200..299
    /\ \A c \in DOMAIN conversations' \ Known : ~conversations'[c].callback_sent

NotificationSentDiscipline == []SentImpliesScam /\ [][SentStep]_vars

\* a message is handled after the report of its conversation succeeded
NotificationSentWitness ==
    /\ last.kind = "process" /\ last.merged
    /\ Conv(last.cid).callback_sent

\* C5: in a conversation without any scam message, no report is attempted,
\* every message is answered with next_action "end", and scam_detected and
\* callback_sent stay false.
NoScamSoFar(c) ==
    \A i \in 1..Len(Conv(c).messages) : ~detect_scam(Conv(c).messages[i].user).is_scam

BenignConversation ==
    \A c \in Known : NoScamSoFar(c) =>
        /\ attempts[c] = 0
        /\ ~Conv(c).scam_detected /\ ~Conv(c).callback_sent
        /\ (Handled /\ last.cid = c) => (last.status = 200 /\ last.next_action = "end")

\* C6: classification, extraction, response selection and the store merge
\* complete without raising for every text, so the handler returns a normal
\* response.
NoHandlerRaises == Handled => last.status # 500

\* C7: every value extracted from the user text of a recorded turn is in the
\* accumulated intelligence of its category.
TurnsAccumulated ==
    \A c \in Known : \A i \in 1..Len(Conv(c).messages) : \A j \in 1..Len(Categories) :
        Items(extract_intelligence(Conv(c).messages[i].user), Categories[j])
            \subseteq Get(Conv(c).extracted_intelligence, Categories[j])

\* C8: after any step, every category of the accumulated intelligence of
\* every conversation is still there and holds a superset of its old value.
MergeMonotonic ==
    [][\A c \in Known :
         /\ c \in DOMAIN conversations'
         /\ \A k \in DOMAIN Conv(c).extracted_intelligence :
              /\ k \in DOMAIN conversations'[c].extracted_intelligence
              /\ Conv(c).extracted_intelligence[k]
                   \subseteq conversations'[c].extracted_intelligence[k]]_vars

\* a category accumulated from two different messages
MergeMonotonicWitness ==
    /\ "default" \in Known
    /\ Get(Conv("default").extracted_intelligence, "bank_accounts")
         = {"123456789012", "9876543210"}

\* C9: the length of messages equals the number of calls that entered the
\* engine for the identifier; a step keeps the earlier pairs and a call adds
\* exactly one pair at the end, also with suspended handlers in between.
TurnCount == \A c \in CIDs : TurnsOf(conversations, c) = calls[c]

AppendOnly ==
    \A c \in CIDs :
       LET old == IF c \in Known THEN Conv(c).messages ELSE <<>>
           new == IF c \in DOMAIN conversations' THEN conversations'[c].messages ELSE <<>>
       IN  /\ Len(new) >= Len(old)
           /\ SubSeq(new, 1, Len(old)) = old
           /\ Len(new) = Len(old) + (calls'[c] - calls[c])
           /\ calls'[c] - calls[c] \in {0, 1}
           /\ Len(new) > Len(old) => new[Len(new)].user = last'.text

TurnsAppendOnly == []TurnCount /\ [][AppendOnly]_vars

\* three messages handled while the handlers of two of them are suspended
TurnsAppendOnlyWitness ==
    /\ Cardinality(pending) = 2
    /\ TurnsOf(conversations, "default") = 3

\* C10: the selector answers a non-scam message with the neutral reply,
\* agent_engaged false and "end"; a scam message with agent_engaged true and
\* "end" exactly when the turn is at least 4 and this message's extraction
\* has a payment handle and an account number, otherwise "continue".
SelectorContract ==
    last.kind = "selected" =>
        IF ~last.is_scam
        THEN /\ last.response_text = NeutralReply
             /\ ~last.agent_engaged
             /\ last.next_action = "end"
        ELSE /\ last.agent_engaged
             /\ last.next_action \in {"end", "continue"}
             /\ last.next_action = "end" <=>
                  /\ last.turn >= 4
                  /\ last.extracted.upi_ids # {}
                  /\ last.extracted.bank_accounts # {}

\* a scam message at turn 4 or later with a handle but no account: "continue"
SelectorContractWitness ==
    /\ last.kind = "selected" /\ last.is_scam
    /\ last.turn >= 4
    /\ last.extracted.upi_ids # {} /\ last.extracted.bank_accounts = {}
    /\ last.next_action = "continue"

\* C11: the Nth message that enters the engine for an identifier gets turn
\* N, the first one gets 1, and no two handlers of the same identifier hold
\* the same turn, also while some of them are suspended.
TurnIsOrdinal ==
    \A c \in CIDs : calls'[c] = calls[c] + 1 =>
        /\ last'.cid = c
        /\ last'.turn = calls[c] + 1
        /\ \A other \in pending : other.cid = c => other.turn < last'.turn

TurnNumbersDistinct ==
    \A a \in pending : \A b \in pending : (a.cid = b.cid /\ a.turn = b.turn) => a = b

TurnNumbering == []TurnNumbersDistinct /\ [][TurnIsOrdinal]_vars

\* the fourth message is handled while the handlers of two earlier messages
\* are still suspended
TurnNumberingWitness ==
    /\ last.kind = "process" /\ last.turn = 4 /\ last.merged
    /\ Cardinality({p \in pending : p.cid = last.cid}) >= 2

\* C12: in a conversation of scam-flagged messages, the call of the first
\* message at turn 4 or later that carries a handle and an account number
\* answers "end" and starts the only report so far, with
\* totalMessagesExchanged equal to the turn count including that message.
ScamRun(c) ==
    \A i \in 1..Len(Conv(c).messages) : detect_scam(Conv(c).messages[i].user).is_scam

CarriesBoth(text) ==
    /\ extract_intelligence(text).upi_ids # {}
    /\ extract_intelligence(text).bank_accounts # {}

FirstTerminating(c, k) ==
    /\ k >= 4
    /\ CarriesBoth(Conv(c).messages[k].user)
    /\ \A i \in 4..(k - 1) : ~CarriesBoth(Conv(c).messages[i].user)

ScamRunReportsOnce ==
    \A c \in Known :
        (/\ Handled /\ last.kind = "process" /\ last.cid = c
         /\ last.turn = Len(Conv(c).messages)
         /\ ScamRun(c)
         /\ FirstTerminating(c, Len(Conv(c).messages)))
        => /\ last.next_action = "end"
           /\ last.status # 500
           /\ last.attempted
           /\ attempts[c] = 1
           /\ last.payload.totalMessagesExchanged = Len(Conv(c).messages)

\* C13: a post answered with any status from 200 to 299 counts as success
\* and sets callback_sent; callback_sent is set only on such an answer.
AnyTwoHundredSucceeds ==
    last.kind = "resume" =>
        /\ last.callback_status \in 200..299 => Conv(last.cid).callback_sent
        /\ (last.callback_status \notin 200..299 /\ attempts[last.cid] = 1)
              => ~Conv(last.cid).callback_sent

\* C14: when the post fails (exception, timeout, status outside 200..299)
\* the conversations are left as they were, so callback_sent is unchanged,
\* and the suspended handler returns its normal response.
FailedAttemptStep ==
    (last'.kind = "resume" /\ last'.callback_status \notin 200..299) =>
        /\ conversations' = conversations
        /\ last'.status = 200
        /\ [last' EXCEPT !.kind = "process", !.status = 0, !.callback_status = 0]
              \in pending

FailedAttemptAbsorbed == [][FailedAttemptStep]_vars

\* the only attempt of a conversation ended with an exception
FailedAttemptAbsorbedWitness ==
    /\ last.kind = "resume" /\ last.callback_status = 0
    /\ attempts[last.cid] = 1
    /\ ~Conv(last.cid).callback_sent
    /\ last.status = 200

\* C15: after a failed attempt the next message whose decision is "end"
\* starts a new attempt, and an attempt starts only in the handler of a
\* message whose decision is "end".
RetryStep ==
    \A c \in CIDs :
        /\ (/\ c \in Known /\ pending = {}
            /\ attempts[c] >= 1 /\ ~Conv(c).callback_sent
            /\ calls'[c] = calls[c] + 1
            /\ last'.next_action = "end")
           => attempts'[c] = attempts[c] + 1
        /\ attempts'[c] # attempts[c] =>
              /\ last'.kind = "process" /\ last'.cid = c
              /\ last'.next_action = "end"

RetryOnNextEnd == [][RetryStep]_vars

\* C16: scam_detected, once true, stays true, and agent_engaged equals
\* scam_detected in every conversation.
EngagedMirrors == \A c \in Known : Conv(c).agent_engaged = Conv(c).scam_detected

ScamStickyStep ==
    \A c \in Known :
        /\ c \in DOMAIN conversations'
        /\ Conv(c).scam_detected => conversations'[c].scam_detected

ScamSticky == []EngagedMirrors /\ [][ScamStickyStep]_vars

\* a non-scam message, answered with agent_engaged false, in a conversation
\* that was flagged before
ScamStickyWitness ==
    /\ last.kind = "process" /\ last.merged
    /\ ~last.is_scam /\ ~last.agent_engaged
    /\ Conv(last.cid).scam_detected

\* C17: for every text the confidence is between 0.0 and 1.0, equals the
\* sum of the weights of the matching families (0.4, 0.5, 0.4) capped at
\* 1.0, and is_scam is true exactly when it is at least 0.7 (in tenths).
MatchedWeights(text) ==
      (IF MatchesUrgency(text) THEN 4 ELSE 0)
    + (IF MatchesLink(text) THEN 5 ELSE 0)
    + (IF MatchesFinancial(text) THEN 4 ELSE 0)

ClassifierContract ==
    last.kind = "analysed" =>
        /\ last.confidence \in 0..10
        /\ last.confidence = (IF MatchedWeights(last.text) < 10
                              THEN MatchedWeights(last.text) ELSE 10)
        /\ last.is_scam <=> last.confidence >= 7

\* all three families match and the sum 1.3 is capped
ClassifierContractWitness ==
    /\ last.kind = "analysed"
    /\ MatchesUrgency(last.text) /\ MatchesLink(last.text) /\ MatchesFinancial(last.text)
    /\ last.confidence = 10 /\ last.is_scam

\* C18: no list returned by the extractor holds a value twice, and a text
\* with a payment handle yields a non-empty list of handles.
NoRepeats(s) == \A i \in 1..Len(s) : \A j \in 1..Len(s) : s[i] = s[j] => i = j

ExtractDeduplicated ==
    last.kind = "analysed" =>
        /\ NoRepeats(last.extracted.urls)
        /\ (Range(last.text) \cap UpiTokens # {}) => last.extracted.upi_ids # {}

\* C19: the first message of a fresh conversation, matching the urgency and
\* URL families and carrying one handle and one URL but no account number,
\* is answered with is_scam true, confidence at least 0.7, the handle and
\* one suspicious URL in the extracted data and next_action "continue";
\* afterwards the conversation has one turn and scam_detected is true.
ScenarioAnswer ==
    (Handled /\ last.kind = "process" /\ last.turn = 1 /\ last.text = TextScenario) =>
        /\ last.status = 200
        /\ last.is_scam /\ last.confidence >= 7
        /\ "pay@ybl" \in last.extracted.upi_ids
        /\ Len(last.extracted.urls) = 1 /\ last.extracted.urls[1].is_suspicious
        /\ last.next_action = "continue"
        /\ Len(Conv(last.cid).messages) = 1
        /\ Conv(last.cid).scam_detected

\* C20: a report carries the identifier as sessionId, scamDetected true and
\* the accumulated account numbers, handles, phone numbers and keywords of
\* the moment of sending; phishingLinks holds the URL string of every URL
\* extracted from a message of the conversation so far.
UrlsSoFar(c) ==
    UNION {{u.url : u \in Range(extract_intelligence(Conv(c).messages[i].user).urls)}
           : i \in 1..Len(Conv(c).messages)}

ReportPayload ==
    (last.kind = "process" /\ last.attempted) =>
        LET p == last.payload
            acc == Conv(last.cid).extracted_intelligence
        IN  /\ p.sessionId = last.cid
            /\ p.scamDetected
            /\ p.extractedIntelligence.bankAccounts = Get(acc, "bank_accounts")
            /\ p.extractedIntelligence.upiIds = Get(acc, "upi_ids")
            /\ p.extractedIntelligence.phoneNumbers = Get(acc, "phone_numbers")
            /\ p.extractedIntelligence.suspiciousKeywords = Get(acc, "keywords")
            /\ p.extractedIntelligence.phishingLinks = UrlsSoFar(last.cid)

\* C21: a request without the X-API-Key header, or with a key that is not
\* configured, is answered 403 and changes nothing: no conversation, no
\* rate counter, no report.
UnauthorizedStep ==
    (last'.kind = "process" /\ last'.key \notin API_KEYS) =>
        /\ last'.status = 403
        /\ UNCHANGED <<conversations, pending, calls, attempts, successes, rate_limits>>

UnauthorizedRejected == [][UnauthorizedStep]_vars

\* the number of pattern families (urgency, link, financial) a text matches
Families(text) ==
    Cardinality({f \in {"urgency", "link", "financial"} :
                    \/ (f = "urgency" /\ MatchesUrgency(text))
                    \/ (f = "link" /\ MatchesLink(text))
                    \/ (f = "financial" /\ MatchesFinancial(text))})

\* C27: a text is classified as a scam exactly when at least two of the three
\* families match; one family alone never is; three families give exactly 1.0.
TwoFamiliesRule ==
    last.kind = "analysed" =>
        /\ last.is_scam <=> Families(last.text) >= 2
        /\ Families(last.text) = 1 => ~last.is_scam /\ last.confidence < ScamThreshold
        /\ Families(last.text) = 3 => last.is_scam /\ last.confidence = ScoreCap

\* the link family alone: 0.5, the largest single weight, is not a scam
TwoFamiliesRuleWitness ==
    /\ last.kind = "analysed"
    /\ MatchesLink(last.text)
    /\ Families(last.text) = 1
    /\ last.confidence = LinkWeight
    /\ ~last.is_scam

\* a ResponseData has been returned for the request recorded in last
Responded == last.kind \in {"process", "resume"} /\ last.status = 200

\* C23: in every response metrics.turn_count is the turn count right after the
\* message was appended and metrics.scam_detected is the sticky flag of the
\* conversation (some message so far was a scam), while scam_detected and
\* agent_engaged of the response follow the current message only.
ResponseMetrics ==
    Responded =>
        /\ last.cid \in Known
        /\ last.metrics.turn_count = last.turn
        /\ last.turn \in 1..Len(Conv(last.cid).messages)
        /\ Conv(last.cid).messages[last.turn].user = last.text
        /\ last.kind = "process" => last.metrics.turn_count = Len(Conv(last.cid).messages)
        /\ last.metrics.scam_detected = Conv(last.cid).scam_detected
        /\ last.metrics.scam_detected <=>
             \E i \in 1..last.turn : detect_scam(Conv(last.cid).messages[i].user).is_scam
        /\ last.is_scam = detect_scam(last.text).is_scam
        /\ last.agent_engaged = last.is_scam

\* a harmless message in a flagged conversation: the metrics say scam, the
\* top-level fields do not
ResponseMetricsWitness ==
    /\ Responded
    /\ last.turn >= 2
    /\ ~last.is_scam
    /\ ~last.agent_engaged
    /\ last.metrics.scam_detected

\* C26: in a conversation that is flagged as a scam and not yet reported, a
\* message classified as harmless gets the decision "end" and starts a report
\* attempt, whatever the turn number and whatever the message carries.
NonScamTriggersStep ==
    \A c \in CIDs :
        ( /\ c \in Known
          /\ Conv(c).scam_detected
          /\ ~Conv(c).callback_sent
          /\ calls'[c] = calls[c] + 1
          /\ ~last'.is_scam )
        => /\ last'.next_action = "end"
           /\ attempts'[c] = attempts[c] + 1

NonScamTriggersReport == [][NonScamTriggersStep]_vars

\* C25: once the remote intake answers an attempt of a flagged conversation
\* with a success status (200 to 299), callback_sent becomes true, and it
\* stays true from then on.  This is the step form of the liveness claim:
\* the answer with a success status is the step that has to reach REPORTED.
ReportedStep ==
    \A c \in CIDs :
        /\ ( /\ c \in Known
             /\ Conv(c).scam_detected
             /\ last'.kind = "resume"
             /\ last'.cid = c
             /\ pending' # pending
             /\ last'.callback_status \in 200..299 )
           => conversations'[c].callback_sent
        /\ (c \in Known /\ Conv(c).callback_sent) => conversations'[c].callback_sent

EventuallyReported == [][ReportedStep]_vars

\* an authorised request within the limit arrives for conversation c in this step
Arrives(c) ==
    /\ last'.kind = "process"
    /\ last'.cid = c
    /\ last'.key \in API_KEYS
    /\ last'.status # 429
    /\ <<last, calls>>' # <<last, calls>>

\* C22: while the report of one conversation is suspended at the post, a
\* message that arrives for another conversation identifier is classified,
\* merged and answered in its own step (or suspends only on a report of its
\* own), and the first report is still waiting for the remote intake.
ProceedsStep ==
    \A call \in pending :
        \A c \in CIDs \ {call.cid} :
            Arrives(c) =>
                /\ call \in pending'
                /\ calls'[c] = calls[c] + 1
                /\ last'.is_scam = detect_scam(last'.text).is_scam
                /\ last'.merged
                /\ Len(conversations'[c].messages) = TurnsOf(conversations, c) + 1
                /\ conversations'[c].messages[last'.turn].user = last'.text
                /\ \/ last'.status = 200
                   \/ (last'.attempted /\ last' \in pending' /\ pending' = pending \cup {last'})

OtherConversationProceeds == [][ProceedsStep]_vars

\* "other" has been answered while the report of "default" was still suspended
OtherConversationProceedsWitness ==
    /\ \E call \in pending : call.cid = "default"
    /\ last.kind = "process"
    /\ last.cid = "other"
    /\ last.status = 200
    /\ last.merged
    /\ Len(Conv("other").messages) >= 1

\* C24: a step taken for conversation A leaves every other stored
\* conversation as it was, no conversation is ever removed, and a
\* conversation appears only with the first message handled for its
\* identifier.
FrameStep ==
    /\ DOMAIN conversations \subseteq DOMAIN conversations'
    /\ \A c \in DOMAIN conversations :
          c # last'.cid => conversations'[c] = conversations[c]
    /\ \A c \in DOMAIN conversations' \ DOMAIN conversations :
          /\ last'.kind = "process"
          /\ last'.cid = c
          /\ calls[c] = 0
          /\ calls'[c] = 1
          /\ Len(conversations'[c].messages) = 1

OtherConversationsUntouched == [][FrameStep]_vars

\* both conversations exist, each with turns and intelligence of its own
OtherConversationsUntouchedWitness ==
    /\ DOMAIN conversations = CIDs
    /\ last.kind = "process"
    /\ last.cid = "other"
    /\ Conv("default").scam_detected
    /\ ~Conv("other").scam_detected
    /\ Conv("default").extracted_intelligence # Conv("other").extracted_intelligence

\* C28: for one key within one minute the requests numbered 1 to 100 are
\* processed and every later one is answered 429; the rejected request
\* changes no conversation and starts no report, yet it is counted.
RateLimitStep ==
    \A key \in API_KEYS :
        LET before == Counted(rate_limits, <<key, now>>)
            n == Counted(rate_limits', <<key, now>>)
        IN  ( /\ last'.key = key
              /\ last'.kind \in {"process", "elsewhere"}
              /\ <<last, rate_limits>>' # <<last, rate_limits>> )
            => /\ n = before + 1
               /\ n <= RateLimit =>
                     /\ last'.status # 429
                     /\ last'.kind = "process" =>
                           /\ calls'[last'.cid] = calls[last'.cid] + 1
                           /\ last'.merged
               /\ n > RateLimit =>
                     /\ last'.status = 429
                     /\ UNCHANGED <<conversations, pending, calls, attempts, successes>>

RateLimitBeforeEngine == [][RateLimitStep]_vars

\* request 101 would have started the report of a flagged conversation: it is
\* turned away, counted, and the conversation is as the second turn left it
RateLimitBeforeEngineWitness ==
    /\ last.kind = "process"
    /\ last.status = 429
    /\ ~detect_scam(last.text).is_scam
    /\ Counted(rate_limits, <<last.key, now>>) = RateLimit + 1
    /\ last.cid \in Known
    /\ Conv(last.cid).scam_detected
    /\ ~Conv(last.cid).callback_sent
    /\ pending = {}
    /\ attempts[last.cid] = 1
    /\ Len(Conv(last.cid).messages) = 2

====
